---------------------------- MODULE Spec2Model ----------------------------
(***************************************************************************)
(* Model of src/app.py: the Vietnamese <-> Japanese translator.            *)
(*                                                                         *)
(* Strings are sequences of Unicode code points, so that the script-range  *)
(* test, the ASCII test, str.strip() and the string prefixes of the code   *)
(* are computed as the code computes them.  Remote services and the local  *)
(* statistical identifier are black boxes: every call takes its outcome    *)
(* from a small set of possible outcomes (normal results and failures).    *)
(*                                                                         *)
(* Two specifications:                                                     *)
(*   FnSpec  calls the four helper functions on bounded inputs;            *)
(*   Spec    is one user session of the page: a sequence of script runs,   *)
(*           one per user action, in any of the three modes.               *)
(***************************************************************************)
EXTENDS Integers, Sequences, FiniteSets, TLC

VARIABLES
    op,        \* the operation that ran last (a helper function or a mode handler)
    args,      \* its inputs
    ret,       \* what it returned (helper) or rendered (mode handler)
    calls,     \* the remote calls it issued, in order
    raised,    \* "none", or the function out of which an exception propagated
    tmp,       \* the temporary file of transcribe_bytes: [created, present, removeAttempted]
    pc,        \* position: "call"/"done" (helper), or the next step of the script run
    chat,      \* st.session_state.chat
    chatInit   \* "chat" in st.session_state

vars == <<op, args, ret, calls, raised, tmp, pc, chat, chatInit>>

---------------------------------------------------------------------------
(* Bounds *)

\* longest enumerated input text (besides the two scenario texts of the spec)
MaxLen == 2
\* most turns recorded in one session
MaxTurns == 3

---------------------------------------------------------------------------
(* Strings *)

KanaLo == 12352
KanaHi == 12543
CjkLo == 19968
CjkHi == 40959
AsciiLimit == 128

\* ' ', 'a', 'a-grave', hiragana A, U+30FF (last of the kana range),
\* U+4E00 (first of the ideograph range), U+A000 (first after it)
Alphabet == {32, 97, 224, 12354, 12543, 19968, 40960}

XinChao == <<88, 105, 110, 32, 99, 104, 224, 111>>
Konnichiwa == <<12371, 12435, 12395, 12385, 12399>>

Texts == (UNION {[1..n -> Alphabet] : n \in 0..MaxLen}) \cup {XinChao, Konnichiwa}

\* str.isspace() code points, as str.strip() removes them
Whitespace == (9..13) \cup (28..32) \cup {133, 160, 5760} \cup (8192..8202)
              \cup {8232, 8233, 8239, 8287, 12288}

RECURSIVE lstrip(_)
lstrip(s) == IF s # <<>> /\ Head(s) \in Whitespace THEN lstrip(Tail(s)) ELSE s

RECURSIVE rstrip(_)
rstrip(s) == IF s # <<>> /\ s[Len(s)] \in Whitespace
             THEN rstrip(SubSeq(s, 1, Len(s) - 1)) ELSE s

strip(s) == rstrip(lstrip(s))

LangChars(code) == IF code = "vi" THEN <<118, 105>>
                   ELSE IF code = "ja" THEN <<106, 97>>
                   ELSE <<97, 117, 116, 111>>

\* "Translation error: "
ErrorPrefix == <<84, 114, 97, 110, 115, 108, 97, 116, 105, 111, 110, 32,
                 101, 114, 114, 111, 114, 58, 32>>
\* "Translation failed"
TranslationFailed == <<84, 114, 97, 110, 115, 108, 97, 116, 105, 111, 110, 32,
                       102, 97, 105, 108, 101, 100>>
\* str(IndexError) of resp.choices[0] on an empty list
IndexErrorMsg == <<108, 105, 115, 116, 32, 105, 110, 100, 101, 120, 32, 111, 117,
                   116, 32, 111, 102, 32, 114, 97, 110, 103, 101>>

\* f"[SRC={src}] [DST={dst}]\n{text}"
UserMessage(src, dst, text) ==
    <<91, 83, 82, 67, 61>> \o LangChars(src) \o <<93, 32, 91, 68, 83, 84, 61>>
        \o LangChars(dst) \o <<93, 10>> \o text

---------------------------------------------------------------------------
(* Outcomes of the collaborators *)

\* langdetect.detect: a language code, or "raise" (LangDetectException)
IdOutcomes == {"ja", "vi", "en", "raise"}

\* client.chat.completions.create and the reading of its response
LlmOutcomes ==
    [kind : {"raise"}, text : {<<>>, <<101>>}]
        \cup [kind : {"empty_choices", "content_none"}, text : {<<>>}]
        \cup [kind : {"content"}, text : {<<>>, <<32>>, <<98>>, <<32, 98, 32>>}]

LlmFails(o) == o.kind # "content" \/ strip(o.text) = <<>>

---------------------------------------------------------------------------
(* Helper functions *)

IsJapaneseChar(ch) == (KanaLo <= ch /\ ch <= KanaHi) \/ (CjkLo <= ch /\ ch <= CjkHi)

detect_lang_simple_no_script_check(text, id) ==
    IF id \in {"ja", "vi"} THEN id
    ELSE IF \A i \in 1..Len(text) : text[i] < AsciiLimit THEN "vi" ELSE "ja"

detect_lang_simple_fallback_vi(text, id) ==
    IF \E i \in 1..Len(text) : IsJapaneseChar(text[i]) THEN "ja"
    ELSE IF id \in {"ja", "vi"} THEN id
    ELSE "vi"

detect_lang_simple(text, id) ==
    IF \E i \in 1..Len(text) : IsJapaneseChar(text[i]) THEN "ja"
    ELSE IF id \in {"ja", "vi"} THEN id
    ELSE IF \A i \in 1..Len(text) : text[i] < AsciiLimit THEN "vi" ELSE "ja"

ResolveSource(text, src, id) ==
    IF src = "auto"
    THEN LET detected == detect_lang_simple(text, id)
         IN  IF detected \in {"vi", "ja"} THEN detected ELSE "vi"
    ELSE src

ChatCall(src, dst, text) ==
    [api |-> "translate", input |-> UserMessage(src, dst, text)]

CompletionText(llm) ==
    IF llm.kind = "raise" THEN ErrorPrefix \o llm.text
    ELSE IF llm.kind = "empty_choices" THEN ErrorPrefix \o IndexErrorMsg
    ELSE IF llm.kind = "content" /\ llm.text # <<>> THEN strip(llm.text)
    ELSE TranslationFailed

translate_text_retry(text, src, dst, id, llm) ==
    LET s == ResolveSource(text, src, id)
        call == ChatCall(s, dst, text)
    IN  IF s = dst
        THEN [ret |-> text, calls |-> <<>>]
        ELSE [ret |-> CompletionText(llm),
              calls |-> IF llm.kind = "raise" THEN <<call, call>> ELSE <<call>>]

translate_text_always_remote(text, src, dst, id, llm) ==
    LET s == ResolveSource(text, src, id)
    IN  [ret |-> CompletionText(llm), calls |-> <<ChatCall(s, dst, text)>>]

translate_text(text, src, dst, id, llm) ==
    LET s == ResolveSource(text, src, id)
    IN  IF s = dst
        THEN [ret |-> text, calls |-> <<>>]
        ELSE [ret |-> CompletionText(llm), calls |-> <<ChatCall(s, dst, text)>>]

----------------------------------------------------------------------

\* with tempfile.NamedTemporaryFile(delete=False) ... finally: os.remove
NoTmp == [created |-> FALSE, present |-> FALSE, removeAttempted |-> FALSE]

SttCall(wav_bytes, lang_hint) ==
    [api |-> "transcribe",
     input |-> [file |-> wav_bytes,
                language |-> IF lang_hint \in {"vi", "ja"} THEN lang_hint ELSE "unset"]]

\* io.fault: the step that fails ("none": no failure); io.text: stt.text;
\* io.removeOk: os.remove succeeds
transcribe_bytes(wav_bytes, lang_hint, io) ==
    IF io.fault = "create"
    THEN [raised |-> TRUE, ret |-> <<>>, calls |-> <<>>, tmp |-> NoTmp]
    ELSE IF io.fault = "write"
    THEN [raised |-> TRUE, ret |-> <<>>, calls |-> <<>>,
          tmp |-> [created |-> TRUE, present |-> TRUE, removeAttempted |-> FALSE]]
    ELSE LET cleaned == [created |-> TRUE, present |-> ~io.removeOk,
                         removeAttempted |-> TRUE]
             call == SttCall(wav_bytes, lang_hint)
         IN  IF io.fault = "open"
             THEN [raised |-> TRUE, ret |-> <<>>, calls |-> <<>>, tmp |-> cleaned]
             ELSE IF io.fault \in {"remote", "text"}
             THEN [raised |-> TRUE, ret |-> <<>>, calls |-> <<call>>, tmp |-> cleaned]
             ELSE [raised |-> FALSE, ret |-> strip(io.text), calls |-> <<call>>,
                   tmp |-> cleaned]

EmptyBytes == [enc |-> "empty", id |-> 0]
Mp3Bytes(k) == [enc |-> "mp3", id |-> k]
\* AudioSegment.from_file(..., format="mp3").export(buf, format="wav")
ToWav(raw) == [enc |-> "wav", id |-> raw.id]

TtsCall(text, voice) ==
    [api |-> "synthesize", input |-> [voice |-> voice, text |-> text]]

\* tts.fault: "remote" (the speech request or resp.read() fails),
\* "convert" (the local MP3 -> WAV conversion fails) or "none"; tts.raw: the MP3 bytes
speak_wav_mime_on_fallback(text, voice, fmt, tts) ==
    IF strip(text) = <<>>
    THEN [raised |-> FALSE, ret |-> <<EmptyBytes, "audio/mp3">>, calls |-> <<>>]
    ELSE IF tts.fault = "remote"
    THEN [raised |-> TRUE, ret |-> <<EmptyBytes, "audio/mp3">>,
          calls |-> <<TtsCall(text, voice)>>]
    ELSE IF fmt = "mp3"
    THEN [raised |-> FALSE, ret |-> <<tts.raw, "audio/mp3">>,
          calls |-> <<TtsCall(text, voice)>>]
    ELSE IF tts.fault = "convert"
    THEN [raised |-> FALSE, ret |-> <<tts.raw, "audio/wav">>,
          calls |-> <<TtsCall(text, voice)>>]
    ELSE [raised |-> FALSE, ret |-> <<ToWav(tts.raw), "audio/wav">>,
          calls |-> <<TtsCall(text, voice)>>]

speak(text, voice, fmt, tts) ==
    IF strip(text) = <<>>
    THEN [raised |-> FALSE, ret |-> <<EmptyBytes, "audio/mp3">>, calls |-> <<>>]
    ELSE IF tts.fault = "remote"
    THEN [raised |-> TRUE, ret |-> <<EmptyBytes, "audio/mp3">>,
          calls |-> <<TtsCall(text, voice)>>]
    ELSE IF fmt = "mp3"
    THEN [raised |-> FALSE, ret |-> <<tts.raw, "audio/mp3">>,
          calls |-> <<TtsCall(text, voice)>>]
    ELSE IF tts.fault = "convert"
    THEN [raised |-> FALSE, ret |-> <<tts.raw, "audio/mp3">>,
          calls |-> <<TtsCall(text, voice)>>]
    ELSE [raised |-> FALSE, ret |-> <<ToWav(tts.raw), "audio/wav">>,
          calls |-> <<TtsCall(text, voice)>>]

---------------------------------------------------------------------------
(* Function-level specification: each helper applied to bounded inputs *)

Voices == {"alloy", "verse"}
Formats == {"mp3", "wav", "ogg"}
WavInputs == {"rec1", "rec2"}
SttTexts == {<<97>>, <<12354, 32>>}
SttFaults == {"none", "create", "write", "open", "remote", "text"}
SttOutcomes == [fault : SttFaults, text : SttTexts, removeOk : BOOLEAN]
TtsOutcomes == [fault : {"none", "remote", "convert"}, raw : {Mp3Bytes(1), Mp3Bytes(2)}]

DetectArgs == [text : Texts, id : IdOutcomes]
TranslateArgs == [text : Texts, src : {"auto", "vi", "ja"}, dst : {"vi", "ja"},
                  id : IdOutcomes, llm : LlmOutcomes]
TranscribeArgs == [wav_bytes : WavInputs, lang_hint : {"auto", "vi", "ja"},
                   io : SttOutcomes]
SpeakArgs == [text : Texts, voice : Voices, fmt : Formats, tts : TtsOutcomes]

NoValue == [none |-> TRUE]

FnInit ==
    /\ \/ op = "detect" /\ args \in DetectArgs
       \/ op = "translate" /\ args \in TranslateArgs
       \/ op = "transcribe" /\ args \in TranscribeArgs
       \/ op = "speak" /\ args \in SpeakArgs
    /\ pc = "call"
    /\ ret = NoValue
    /\ calls = <<>>
    /\ raised = "none"
    /\ tmp = NoTmp
    /\ chat = <<>>
    /\ chatInit = FALSE

CallDetect ==
    /\ pc = "call" /\ op = "detect"
    /\ ret' = detect_lang_simple(args.text, args.id)
    /\ pc' = "done"
    /\ UNCHANGED <<op, args, calls, raised, tmp, chat, chatInit>>

CallTranslate ==
    /\ pc = "call" /\ op = "translate"
    /\ LET r == translate_text(args.text, args.src, args.dst, args.id, args.llm)
       IN  /\ ret' = r.ret
           /\ calls' = r.calls
    /\ pc' = "done"
    /\ UNCHANGED <<op, args, raised, tmp, chat, chatInit>>

CallTranscribe ==
    /\ pc = "call" /\ op = "transcribe"
    /\ LET r == transcribe_bytes(args.wav_bytes, args.lang_hint, args.io)
       IN  /\ ret' = r.ret
           /\ calls' = r.calls
           /\ raised' = IF r.raised THEN "transcribe_bytes" ELSE "none"
           /\ tmp' = r.tmp
    /\ pc' = "done"
    /\ UNCHANGED <<op, args, chat, chatInit>>

CallSpeak ==
    /\ pc = "call" /\ op = "speak"
    /\ LET r == speak(args.text, args.voice, args.fmt, args.tts)
       IN  /\ ret' = r.ret
           /\ calls' = r.calls
           /\ raised' = IF r.raised THEN "speak" ELSE "none"
    /\ pc' = "done"
    /\ UNCHANGED <<op, args, tmp, chat, chatInit>>

FnNext == CallDetect \/ CallTranslate \/ CallTranscribe \/ CallSpeak

FnSpec == FnInit /\ [][FnNext]_vars


---------------------------------------------------------------------------
(* One user session of the page *)

UiTexts == {<<97>>, <<32>>, <<12354>>}
UiVoices == {"alloy"}
UiFormats == {"mp3", "wav"}
UiWavInputs == {"rec1"}
UiIdOutcomes == {"vi", "raise"}
UiLlmOutcomes == {[kind |-> "raise", text |-> <<>>], [kind |-> "content", text |-> <<98>>]}
UiSttOutcomes == [fault : SttFaults, text : SttTexts, removeOk : {TRUE}]
UiTtsOutcomes == [fault : {"none", "remote", "convert"}, raw : {Mp3Bytes(1)}]

\* What one script run has rendered so far; an optional value is a sequence of
\* zero or one element.  failed records that translate_text returned one of its
\* error strings in this run.
EmptyView == [warning |-> FALSE, transcript |-> <<>>, translation |-> <<>>,
              failed |-> FALSE, spoken |-> <<>>, audio |-> <<>>, history |-> 0]

ReturnedError(r, llm) == r.calls # <<>> /\ (llm.kind # "content" \/ llm.text = <<>>)

Init ==
    /\ op = "none"
    /\ args = NoValue
    /\ ret = EmptyView
    /\ calls = <<>>
    /\ raised = "none"
    /\ tmp = NoTmp
    /\ pc = "idle"
    /\ chat = <<>>
    /\ chatInit = FALSE

\* A script run in which nothing is submitted: the mode or a setting changes, the
\* button is not pressed, the recorder returns nothing.
Rerun ==
    /\ pc = "idle"
    /\ \E mode \in {"text", "voice", "conversation"} :
        /\ op' = mode
        /\ chatInit' = (chatInit \/ mode = "conversation")
        /\ ret' = [EmptyView EXCEPT !.history = IF mode = "conversation" THEN Len(chat) ELSE 0]
    /\ args' = NoValue
    /\ calls' = <<>>
    /\ raised' = "none"
    /\ tmp' = NoTmp
    /\ UNCHANGED <<pc, chat>>

\* Text mode, the button pressed.
SubmitText ==
    /\ pc = "idle"
    /\ \E text_in \in UiTexts, src \in {"auto", "vi", "ja"}, dst \in {"ja", "vi"},
          voice \in UiVoices, fmt \in UiFormats :
        /\ args' = [src |-> src, dst |-> dst, voice |-> voice, fmt |-> fmt,
                    input |-> text_in]
        /\ IF strip(text_in) = <<>>
           THEN /\ ret' = [EmptyView EXCEPT !.warning = TRUE]
                /\ pc' = "idle"
           ELSE /\ ret' = EmptyView
                /\ pc' = "translate"
    /\ op' = "text"
    /\ calls' = <<>>
    /\ raised' = "none"
    /\ tmp' = NoTmp
    /\ UNCHANGED <<chat, chatInit>>

\* Voice-input mode, a recording returned by the recorder.
SubmitVoice ==
    /\ pc = "idle"
    /\ \E wav_bytes \in UiWavInputs, src \in {"auto", "vi", "ja"}, dst \in {"ja", "vi"},
          voice \in UiVoices, fmt \in UiFormats :
        args' = [src |-> src, dst |-> dst, voice |-> voice, fmt |-> fmt,
                 input |-> wav_bytes]
    /\ op' = "voice"
    /\ ret' = EmptyView
    /\ pc' = "transcribe"
    /\ calls' = <<>>
    /\ raised' = "none"
    /\ tmp' = NoTmp
    /\ UNCHANGED <<chat, chatInit>>

\* Conversation mode, a recording returned by the recorder.
SubmitConversation ==
    /\ pc = "idle"
    /\ Len(chat) < MaxTurns
    /\ \E wav_bytes \in UiWavInputs, voice \in UiVoices, fmt \in UiFormats :
        args' = [voice |-> voice, fmt |-> fmt, input |-> wav_bytes]
    /\ op' = "conversation"
    /\ chatInit' = TRUE
    /\ ret' = EmptyView
    /\ pc' = "transcribe"
    /\ calls' = <<>>
    /\ raised' = "none"
    /\ tmp' = NoTmp
    /\ UNCHANGED chat

Transcribe ==
    /\ pc = "transcribe"
    /\ \E io \in UiSttOutcomes :
        LET r == transcribe_bytes(args.input, IF op = "voice" THEN args.src ELSE "auto", io)
        IN  /\ calls' = calls \o r.calls
            /\ tmp' = r.tmp
            /\ IF r.raised
               THEN /\ raised' = "transcribe_bytes"
                    /\ pc' = "idle"
                    /\ ret' = ret
               ELSE /\ raised' = raised
                    /\ pc' = "translate"
                    /\ ret' = [ret EXCEPT !.transcript = <<r.ret>>]
    /\ UNCHANGED <<op, args, chat, chatInit>>

Translate ==
    /\ pc = "translate"
    /\ op \in {"text", "voice"}
    /\ \E id \in UiIdOutcomes, llm \in UiLlmOutcomes :
        LET text == IF op = "text" THEN args.input ELSE ret.transcript[1]
            r == translate_text(text, args.src, args.dst, id, llm)
        IN  /\ calls' = calls \o r.calls
            /\ ret' = [ret EXCEPT !.translation = <<r.ret>>,
                                  !.failed = ReturnedError(r, llm)]
    /\ pc' = "speak"
    /\ UNCHANGED <<op, args, raised, tmp, chat, chatInit>>

Speaker_after_append(turns) == IF (Len(turns) + 1) % 2 = 0 THEN "A" ELSE "B"

Speaker(turns) == IF Len(turns) % 2 = 0 THEN "A" ELSE "B"

ConversationTranslate ==
    /\ pc = "translate"
    /\ op = "conversation"
    /\ \E id \in UiIdOutcomes, llm \in UiLlmOutcomes :
        LET transcript == ret.transcript[1]
            detected == detect_lang_simple(transcript, id)
            target == IF detected = "vi" THEN "ja" ELSE "vi"
            r == translate_text(transcript, detected, target, id, llm)
        IN  /\ calls' = calls \o r.calls
            /\ ret' = [ret EXCEPT !.failed = ReturnedError(r, llm)]
            /\ chat' = Append(chat, [speaker |-> Speaker(chat),
                                     transcript |-> transcript,
                                     translation |-> r.ret,
                                     src |-> detected,
                                     dst |-> target])
    /\ pc' = "speak"
    /\ UNCHANGED <<op, args, raised, tmp, chatInit>>

Speak ==
    /\ pc = "speak"
    /\ \E tts \in UiTtsOutcomes :
        LET text == IF op = "conversation" THEN chat[Len(chat)].translation
                    ELSE ret.translation[1]
            r == speak(text, args.voice, args.fmt, tts)
        IN  /\ calls' = calls \o r.calls
            /\ IF r.raised
               THEN /\ raised' = "speak"
                    /\ ret' = [ret EXCEPT !.spoken = <<text>>]
               ELSE /\ raised' = raised
                    /\ ret' = [ret EXCEPT !.spoken = <<text>>,
                                          !.audio = IF r.ret[1] # EmptyBytes
                                                    THEN <<r.ret>> ELSE <<>>,
                                          !.history = IF op = "conversation"
                                                      THEN Len(chat) ELSE 0]
    /\ pc' = "idle"
    /\ UNCHANGED <<op, args, tmp, chat, chatInit>>

Next ==
    \/ Rerun
    \/ SubmitText
    \/ SubmitVoice
    \/ SubmitConversation
    \/ Transcribe
    \/ Translate
    \/ ConversationTranslate
    \/ Speak

Spec == Init /\ [][Next]_vars

---------------------------------------------------------------------------
(* Reference definitions used by the properties *)

HasJapaneseScript(text) ==
    \E i \in 1..Len(text) : text[i] \in (12352..12543) \cup (19968..40959)

IsAscii(text) == \A i \in 1..Len(text) : text[i] \in 0..127

\* the three-step priority order of the detector
RefDetect(text, id) ==
    CASE HasJapaneseScript(text) -> "ja"
      [] ~HasJapaneseScript(text) /\ id \in {"ja", "vi"} -> id
      [] OTHER -> IF IsAscii(text) THEN "vi" ELSE "ja"

RefResolved(text, src, id) == IF src = "auto" THEN RefDetect(text, id) ELSE src

IsPrefix(p, s) == Len(p) <= Len(s) /\ SubSeq(s, 1, Len(p)) = p

IsInfix(p, s) == \E k \in 0..(Len(s) - Len(p)) : SubSeq(s, k + 1, k + Len(p)) = p

\* "SRC=<code>" and "DST=<code>"
SrcTag(code) == <<83, 82, 67, 61>> \o LangChars(code)
DstTag(code) == <<68, 83, 84, 61>> \o LangChars(code)

OneTranslationRequest(src, dst) ==
    /\ Len(calls) = 1
    /\ calls[1].api = "translate"
    /\ IsInfix(SrcTag(src), calls[1].input)
    /\ IsInfix(DstTag(dst), calls[1].input)

Returned(f) == op = f /\ pc = "done"

\* "Translation ": what the two error strings of translate_text have in common
CommonErrorPrefix == SubSeq(ErrorPrefix, 1, 12)

IsErrorString(s) == IsPrefix(ErrorPrefix, s) \/ s = TranslationFailed

Rank(api) == IF api = "transcribe" THEN 1 ELSE IF api = "translate" THEN 2 ELSE 3

---------------------------------------------------------------------------
(* Properties *)

\* C1: translate_text returns the text unchanged with no remote call when the
\* resolved source (src, or the detected language when src = "auto") equals dst;
\* otherwise it issues exactly one translation request tagged SRC=<resolved source>
\* and DST=<dst>.
C1_TranslateRouting ==
    Returned("translate") =>
        LET s == RefResolved(args.text, args.src, args.id)
        IN  IF s = args.dst
            THEN calls = <<>> /\ ret = args.text
            ELSE OneTranslationRequest(s, args.dst)

C1_Witness ==
    /\ Returned("translate")
    /\ args.text = Konnichiwa /\ args.src = "auto" /\ args.dst = "vi"
    /\ OneTranslationRequest("ja", "vi")

\* C2: whenever the remote translation fails (exception, empty choices list, no
\* content, empty or blank content) translate_text raises nothing and returns a
\* string that is not empty, not blank and begins with the error prefix.
C2_FailureYieldsErrorString ==
    (Returned("translate") /\ calls # <<>> /\ LlmFails(args.llm)) =>
        /\ raised = "none"
        /\ ret # <<>>
        /\ strip(ret) # <<>>
        /\ IsPrefix(CommonErrorPrefix, ret)

\* C3: no exception propagates out of transcribe_bytes or speak into the handler
\* of a user action.
C3_NoExceptionReachesHandler == raised = "none"

\* C4: once transcribe_bytes has returned or raised, the temporary file it created
\* has been removed or its removal was attempted.
C4_TempFileRemoved ==
    (Returned("transcribe") /\ tmp.created) => tmp.removeAttempted

\* C5: detect_lang_simple equals the three-step priority reference for every text
\* and every outcome of the statistical identifier, and its result is "vi" or "ja".
C5_DetectMatchesReference ==
    Returned("detect") =>
        /\ ret = RefDetect(args.text, args.id)
        /\ ret \in {"vi", "ja"}

C5_Witness ==
    /\ Returned("detect")
    /\ HasJapaneseScript(args.text) /\ ~IsAscii(args.text)
    /\ args.id = "vi"
    /\ ret = "ja"

\* C6 (as stated): for "Xin chao" (with a-grave), src = "auto", dst = "ja", the
\* detector yields "vi" also when the identifier fails or returns an unsupported
\* code, and translate_text issues exactly one request with SRC=vi, DST=ja.
C6_XinChaoAlwaysDispatched ==
    /\ (Returned("detect") /\ args.text = XinChao /\ args.id # "ja") => ret = "vi"
    /\ (Returned("translate") /\ args.text = XinChao /\ args.src = "auto"
            /\ args.dst = "ja" /\ args.id # "ja")
        => OneTranslationRequest("vi", "ja")

\* C6 (amended): for "Xin chao" (with a-grave), src = "auto", dst = "ja": when the
\* identifier returns "vi" the detector yields "vi" and translate_text issues
\* exactly one request with SRC=vi, DST=ja; for every other outcome of the
\* identifier the detector yields "ja" (the a-grave is not ASCII) and
\* translate_text returns the text unchanged without a remote call.
C6_XinChaoDispatchedWhenIdentified ==
    /\ (Returned("detect") /\ args.text = XinChao)
        => ret = IF args.id = "vi" THEN "vi" ELSE "ja"
    /\ (Returned("translate") /\ args.text = XinChao /\ args.src = "auto"
            /\ args.dst = "ja")
        => IF args.id = "vi"
           THEN OneTranslationRequest("vi", "ja")
           ELSE calls = <<>> /\ ret = XinChao

C6_Witness ==
    /\ Returned("translate")
    /\ args.text = XinChao /\ args.src = "auto" /\ args.dst = "ja"
    /\ args.id = "vi"
    /\ OneTranslationRequest("vi", "ja")

SpeakerOfTurn(n) == IF n % 2 = 1 THEN "A" ELSE "B"

SpeakersAlternate == \A n \in 1..Len(chat) : chat[n].speaker = SpeakerOfTurn(n)

TurnsAppendOnly ==
    \/ chat' = chat
    \/ /\ Len(chat') = Len(chat) + 1
       /\ SubSeq(chat', 1, Len(chat)) = chat
       /\ chat'[Len(chat')].speaker = SpeakerOfTurn(Len(chat) + 1)

\* C7: the n-th recorded turn has speaker "A" when n is odd and "B" when n is
\* even; a step records at most one new turn and never changes or removes a
\* recorded one.
C7_SpeakerParity == []SpeakersAlternate /\ [][TurnsAppendOnly]_vars

C7_Witness ==
    /\ pc = "idle"
    /\ Len(chat) = 3
    /\ <<chat[1].speaker, chat[2].speaker, chat[3].speaker>> = <<"A", "B", "A">>
    /\ \E n \in 1..3 : IsErrorString(chat[n].translation)

SpeakResult(text, fmt, tts) ==
    IF fmt = "mp3" THEN <<tts.raw, "audio/mp3">>
    ELSE IF tts.fault = "convert" THEN <<tts.raw, "audio/mp3">>
    ELSE <<[enc |-> "wav", id |-> tts.raw.id], "audio/wav">>

\* C8 (as stated): speak returns empty bytes without a remote call when the text is
\* empty, and for every other text issues one synthesis request and returns the MP3
\* bytes, the converted WAV bytes, or the MP3 bytes when the conversion fails.
C8_SpeakEmptyOnlyForEmptyText ==
    (Returned("speak") /\ args.tts.fault # "remote") =>
        IF args.text = <<>>
        THEN calls = <<>> /\ ret = <<EmptyBytes, "audio/mp3">>
        ELSE /\ Len(calls) = 1
             /\ calls[1].api = "synthesize"
             /\ ret = SpeakResult(args.text, args.fmt, args.tts)

\* C8 (amended): speak returns (empty bytes, "audio/mp3") without a remote call when
\* the text is empty or consists of whitespace only; otherwise, when the one
\* synthesis request yields MP3 bytes raw, it returns (raw, "audio/mp3") for
\* fmt = "mp3", (converted bytes, "audio/wav") for another format whose local
\* conversion succeeds, and (raw, "audio/mp3") when that conversion fails: it does
\* not raise, and the media type names the encoding of the returned bytes.
C8_SpeakResult ==
    (Returned("speak") /\ args.tts.fault # "remote") =>
        /\ raised = "none"
        /\ IF strip(args.text) = <<>>
           THEN calls = <<>> /\ ret = <<EmptyBytes, "audio/mp3">>
           ELSE /\ Len(calls) = 1
                /\ calls[1].api = "synthesize"
                /\ ret = SpeakResult(args.text, args.fmt, args.tts)
                /\ ret[2] = IF ret[1].enc = "wav" THEN "audio/wav" ELSE "audio/mp3"

C8_Witness ==
    /\ Returned("speak")
    /\ strip(args.text) # <<>>
    /\ args.fmt = "wav" /\ args.tts.fault = "convert"
    /\ ret = <<args.tts.raw, "audio/mp3">>

\* C9: when translate_text returned an error string in a script run, the handler
\* neither passes it to speak, nor shows it as the translation, nor stores it in
\* a conversation turn.
C9_ErrorStringKeptApart ==
    (op \in {"text", "voice", "conversation"} /\ pc = "idle" /\ ret.failed) =>
        /\ ret.spoken = <<>>
        /\ ret.translation = <<>>
        /\ op = "conversation" => ~IsErrorString(chat[Len(chat)].translation)

\* C10: the remote calls of one user action are at most three, issued in the order
\* transcribe, translate, synthesize, each kind at most once.
C10_CallOrder ==
    /\ Len(calls) <= 3
    /\ \A i, j \in 1..Len(calls) : i < j => Rank(calls[i].api) < Rank(calls[j].api)

C10_Witness ==
    /\ pc = "idle"
    /\ Len(calls) = 3
    /\ raised = "none"

=============================================================================
